---- MODULE Spec2Model ----
(***************************************************************************)
(* A model of the two facades of the repository:                           *)
(*   - MongoDB (src/tasks/task_02/main.py), the document store of "cats",  *)
(*     and cli(), the command-line dispatcher over it;                     *)
(*   - PostgresClient (src/tasks/task_01/postgress/client.py), the pooled  *)
(*     relational client, with create_database / create_tables / seed.     *)
(*                                                                         *)
(* An Optional[T] of the source is a set here: {} is None, {v} is v.       *)
(* An exception is the name of its class; "none" is a normal return.       *)
(***************************************************************************)
EXTENDS Integers, Sequences, FiniteSets, TLC

VARIABLES
    \* ---- MongoDB object (task_02/main.py) ----
    alive,      \* the MongoDB object exists (between __init__ and __del__)
    client,     \* self.client: {} or {handle}
    db,         \* self.db: {} or {handle}
    inWith,     \* a "with store:" block has been entered and not yet left
    connsMade,  \* number of MongoClient objects constructed so far
    liveConns,  \* handles of the MongoClient objects not yet closed
    \* ---- the server's "cats" collection ----
    cats,       \* documents in natural (insertion) order
    nextId,     \* the next _id the server assigns
    hist,       \* history: _id -> features given at creation / in updates
    track,      \* whether hist is being recorded
    chain,      \* history: the latest calls that follow one another as in Scenario
    ret,        \* what the last call did: inputs, result, exception
    \* ---- the cli() process (task_02/main.py) ----
    cli_pc, cli_args, cli_exit, cli_out,
    \* ---- PostgresClient (task_01/postgress/client.py) and its callers ----
    pg_config,  \* PgConfig: max_size and autocommit
    pool_free,  \* connections the pool holds idle
    th,         \* each caller's operation in progress
    \* ---- create_database (task_01/create.py) ----
    catalog,    \* pg_database: how many databases bear each name
    cd,         \* each invocation of create_database
    \* ---- create_tables (task_01/create.py) ----
    tables,     \* the tables and indexes of the target database
    ct,         \* the invocation of create_tables
    \* ---- seed (task_01/seed.py) ----
    rows,       \* the rows of users, status and tasks
    sd          \* the invocation of seed

docVars == <<alive, client, db, inWith, connsMade, liveConns, cats, nextId, hist, track, chain, chain, ret>>
cliVars == <<cli_pc, cli_args, cli_exit, cli_out>>
poolVars == <<pg_config, pool_free, th>>
cdVars == <<catalog, cd>>
ctVars == <<tables, ct>>
sdVars == <<rows, sd>>
pgVars == <<poolVars, cdVars, ctVars, sdVars>>
vars == <<docVars, cliVars, pgVars>>

(***************************************************************************)
(* Bounds of the model.                                                    *)
(***************************************************************************)
MaxConns == 1       \* MongoClient objects constructed in one behaviour
MaxOpens == 2       \* the same, where the store is closed and opened again (SpecStore)
MaxCreates == 2     \* documents inserted in one behaviour (SpecCrud)
MaxCats == 1        \* documents inserted in one behaviour (SpecStore, SpecFeat)
MaxRuns == 2        \* runs of the command-line tool in one behaviour
NThreads == 2       \* concurrent callers of one PostgresClient
NProcs == 2         \* concurrent invocations of create_database
MaxPool == 2        \* largest max_size of a pool

None == {}
Some(v) == {v}
Optional(S) == {None} \cup {Some(v) : v \in S}
TheValue(o) == CHOOSE v \in o : TRUE

Range(s) == {s[i] : i \in 1..Len(s)}

(***************************************************************************)
(* The result of a call.                                                   *)
(***************************************************************************)
Result(op, n, a, fs, raised, doc, count, calls) ==
    [op |-> op, name |-> n, age |-> a, feats |-> fs,
     raised |-> raised, doc |-> doc, count |-> count, calls |-> calls]

NoCall == Result("none", "", None, None, "none", None, 0, 0)

(***************************************************************************)
(* MongoDB: the state machine.                                             *)
(***************************************************************************)
\* _is_opened(raise_exception=False)
IsOpened == ~(client = None \/ db = None)

\* _open(): outcome is what MongoClient(...) / get_database(...) does
OpenOutcomes == {"ok", "ConnectionFailure", "OperationFailure"}

OpenRaises(outcome) ==
    CASE outcome = "ConnectionFailure" -> "ServerNotAvailable"
      [] outcome = "OperationFailure" -> "ConnectionFailed"
      [] OTHER -> "none"

\* self.client, self.db = self._open()
DoConnect(op, outcome) ==
    IF outcome = "ok"
    THEN /\ connsMade' = connsMade + 1
         /\ client' = Some(connsMade + 1)
         /\ db' = Some(connsMade + 1)
         /\ liveConns' = liveConns \cup {connsMade + 1}
         /\ ret' = Result(op, "", None, None, "none", None, 0, 0)
    ELSE /\ UNCHANGED <<connsMade, client, db, liveConns>>
         /\ ret' = Result(op, "", None, None, OpenRaises(outcome), None, 0, 0)

\* _close()
DoClose(op) ==
    /\ IF client # None
       THEN /\ liveConns' = liveConns \ client
            /\ db' = None
            /\ client' = None
       ELSE UNCHANGED <<liveConns, db, client>>
    /\ ret' = Result(op, "", None, None, "none", None, 0, 0)
    /\ UNCHANGED connsMade

\* (mutant) open() without the test of self.client and self.db
DoOpenAlways(outcome) == DoConnect("open", outcome)

\* open()
DoOpen(outcome) ==
    IF client = None \/ db = None
    THEN DoConnect("open", outcome)
    ELSE /\ ret' = Result("open", "", None, None, "none", None, 0, 0)
         /\ UNCHANGED <<connsMade, client, db, liveConns>>

\* __enter__()
DoEnter(outcome) ==
    /\ IF ~IsOpened
       THEN DoConnect("enter", outcome)
       ELSE /\ ret' = Result("enter", "", None, None, "none", None, 0, 0)
            /\ UNCHANGED <<connsMade, client, db, liveConns>>
    /\ inWith' = (ret'.raised = "none")

\* __exit__(exc_type, exc_val, exc_tb): returns None, so an exception of the
\* block goes on to the caller
DoExit(exc) ==
    /\ IF client # None
       THEN /\ liveConns' = liveConns \ client
            /\ db' = None
            /\ client' = None
       ELSE UNCHANGED <<liveConns, db, client>>
    /\ ret' = Result("exit", "", None, None, exc, None, 0, 0)
    /\ inWith' = FALSE
    /\ UNCHANGED connsMade

New ==
    /\ ~alive
    /\ alive' = TRUE
    /\ client' = None
    /\ db' = None
    /\ inWith' = FALSE
    /\ ret' = Result("init", "", None, None, "none", None, 0, 0)
    /\ UNCHANGED <<connsMade, liveConns, cats, nextId, hist, track, chain, cliVars, pgVars>>

Open(outcome) ==
    /\ alive
    /\ DoOpen(outcome)
    /\ UNCHANGED <<alive, inWith, cats, nextId, hist, track, chain, cliVars, pgVars>>

Close ==
    /\ alive
    /\ DoClose("close")
    /\ UNCHANGED <<alive, inWith, cats, nextId, hist, track, chain, cliVars, pgVars>>

Enter(outcome) ==
    /\ alive
    /\ ~inWith
    /\ DoEnter(outcome)
    /\ UNCHANGED <<alive, cats, nextId, hist, track, chain, cliVars, pgVars>>

Exit(exc) ==
    /\ alive
    /\ inWith
    /\ DoExit(exc)
    /\ UNCHANGED <<alive, cats, nextId, hist, track, chain, cliVars, pgVars>>

\* __del__()
Del ==
    /\ alive
    /\ ~inWith
    /\ DoClose("del")
    /\ alive' = FALSE
    /\ UNCHANGED <<inWith, cats, nextId, hist, track, chain, cliVars, pgVars>>

(***************************************************************************)
(* The driver's operations on the collection.                              *)
(***************************************************************************)
\* index of the first document named n in natural order, 0 if there is none
FirstMatch(cs, n) ==
    IF \E i \in 1..Len(cs) : cs[i].name = n
    THEN CHOOSE i \in 1..Len(cs) :
            /\ cs[i].name = n
            /\ \A j \in 1..(i - 1) : cs[j].name # n
    ELSE 0

\* find_one({"name": n})
FindOne(cs, n) ==
    IF FirstMatch(cs, n) = 0 THEN None ELSE Some(cs[FirstMatch(cs, n)])

\* find_one({"_id": id})
FindById(cs, id) ==
    IF \E i \in 1..Len(cs) : cs[i].id = id
    THEN Some(cs[CHOOSE i \in 1..Len(cs) : cs[i].id = id])
    ELSE None

RemoveAt(cs, i) == SubSeq(cs, 1, i - 1) \o SubSeq(cs, i + 1, Len(cs))

\* (mutant) $push in place of $addToSet
Push(lst, each) == lst \o each

\* {"$addToSet": {"features": {"$each": each}}}:
\* appends, in order, each value the array does not hold yet
RECURSIVE AddToSet(_, _)
AddToSet(lst, each) ==
    IF each = <<>> THEN lst
    ELSE AddToSet(IF Head(each) \in Range(lst) THEN lst ELSE Append(lst, Head(each)),
                  Tail(each))

\* (mutant) update_one({"name": n}, {"$set": {"age": a}}, upsert=True)
SetAgeUpsert(cs, n, a) ==
    IF FirstMatch(cs, n) = 0
    THEN Append(cs, [id |-> Len(cs) + 1, name |-> n, age |-> a, features |-> <<>>])
    ELSE [cs EXCEPT ![FirstMatch(cs, n)].age = a]

\* update_one({"name": n}, {"$set": {"age": a}})
SetAge(cs, n, a) ==
    IF FirstMatch(cs, n) = 0 THEN cs
    ELSE [cs EXCEPT ![FirstMatch(cs, n)].age = a]

\* (mutant) update_many in place of update_one
AddFeaturesToAll(cs, n, each) ==
    [i \in 1..Len(cs) |->
        IF cs[i].name = n
        THEN [cs[i] EXCEPT !.features = AddToSet(@, each)]
        ELSE cs[i]]

\* update_one({"name": n}, {"$addToSet": {"features": {"$each": each}}})
AddFeatures(cs, n, each) ==
    IF FirstMatch(cs, n) = 0 THEN cs
    ELSE [cs EXCEPT ![FirstMatch(cs, n)].features = AddToSet(@, each)]

\* A failure of the driver: the at-th driver call of the operation raises
\* kind (at = 0: no call fails).  OperationFailure is what every operation
\* catches; AutoReconnect (a ConnectionFailure) is caught by none of them.
ErrKinds == {"OperationFailure", "AutoReconnect"}
NoFailure == [at |-> 0, kind |-> "none"]
Failures(n, kinds) == {NoFailure} \cup [at : 1..n, kind : kinds]

\* except OperationFailure as e: raise RuntimeError(f"Operation failed: ...")
Translate(kind) == IF kind = "OperationFailure" THEN "OperationFailed" ELSE kind

CatIds(n) == [valid : {TRUE}, id : 1..n] \cup {[valid |-> FALSE, id |-> 0]}

(***************************************************************************)
(* MongoDB: the data operations.  Each one first runs                      *)
(* _is_opened(raise_exception=True).                                       *)
(***************************************************************************)
\* (mutant) _is_opened() called without raise_exception=True: the operation
\* goes on to self.db.cats with self.db None
NotConnectedUnchecked(op, n, a, fs) ==
    /\ ret' = Result(op, n, a, fs, "AttributeError", None, 0, 0)
    /\ UNCHANGED <<cats, nextId, hist>>

NotConnected(op, n, a, fs) ==
    /\ ret' = Result(op, n, a, fs, "NotConnected", None, 0, 0)
    /\ UNCHANGED <<cats, nextId, hist>>

\* find(cat_id)
DoFind(cid, f) ==
    IF ~IsOpened THEN NotConnected("find", "", None, None)
    ELSE /\ ret' = IF ~cid.valid
                   THEN Result("find", "", None, None, "InvalidId", None, 0, 0)
                   ELSE IF f.at = 0
                   THEN Result("find", "", None, None, "none", FindById(cats, cid.id), 0, 1)
                   ELSE Result("find", "", None, None, Translate(f.kind), None, 0, 1)
         /\ UNCHANGED <<cats, nextId, hist>>

\* (mutant) insert_one({..., "features": []}), whatever features holds
NewCatWithoutFeatures(n, a, fs) ==
    [id |-> nextId, name |-> n, age |-> a, features |-> <<>>]

\* create_one(name, age, features)
NewCat(n, a, fs) ==
    [id |-> nextId, name |-> n, age |-> a,
     features |-> IF fs = None THEN <<>> ELSE TheValue(fs)]

DoCreateOne(n, a, fs, f) ==
    IF ~IsOpened THEN NotConnected("create_one", n, a, fs)
    ELSE /\ IF f.at = 1
            THEN UNCHANGED <<cats, nextId, hist>>
            ELSE /\ cats' = Append(cats, NewCat(n, a, fs))
                 /\ nextId' = nextId + 1
                 /\ hist' = IF track
                            THEN (nextId :> [created |-> NewCat(n, a, fs).features,
                                             supplied |-> {}]) @@ hist
                            ELSE hist
         /\ ret' = IF f.at = 0
                   THEN Result("create_one", n, a, fs, "none",
                               FindById(cats', nextId), 0, 2)
                   ELSE Result("create_one", n, a, fs, Translate(f.kind), None, 0, f.at)

\* read_one(name)
DoReadOne(n, f) ==
    IF ~IsOpened THEN NotConnected("read_one", n, None, None)
    ELSE /\ ret' = IF f.at = 0
                   THEN Result("read_one", n, None, None, "none", FindOne(cats, n), 0, 1)
                   ELSE Result("read_one", n, None, None, Translate(f.kind), None, 0, 1)
         /\ UNCHANGED <<cats, nextId, hist>>

\* read_all(): the documents are returned in ret.count (their number) and
\* are those of cats
DoReadAll(f) ==
    IF ~IsOpened THEN NotConnected("read_all", "", None, None)
    ELSE /\ ret' = IF f.at = 0
                   THEN Result("read_all", "", None, None, "none", None, Len(cats), 1)
                   ELSE Result("read_all", "", None, None, Translate(f.kind), None, 0, 1)
         /\ UNCHANGED <<cats, nextId, hist>>

\* update_one(name, age, features): the driver calls it makes, in order
UpdatePlan(a, fs) ==
    (IF a # None THEN <<"set">> ELSE <<>>)
        \o (IF fs # None THEN <<"addToSet">> ELSE <<>>)
        \o <<"read_one">>

\* the collection after the first k calls of the plan
AfterUpdate(cs, n, a, fs, k) ==
    LET plan == UpdatePlan(a, fs)
        didSet == \E i \in 1..k : plan[i] = "set"
        didAdd == \E i \in 1..k : plan[i] = "addToSet"
        c1 == IF didSet THEN SetAge(cs, n, a) ELSE cs
    IN  IF didAdd THEN AddFeatures(c1, n, TheValue(fs)) ELSE c1

DoUpdateOne(n, a, fs, f) ==
    IF ~IsOpened THEN NotConnected("update_one", n, a, fs)
    ELSE LET plan == UpdatePlan(a, fs)
             k == IF f.at = 0 THEN Len(plan) ELSE f.at - 1
             i == FirstMatch(cats, n)
             added == i # 0 /\ \E j \in 1..k : plan[j] = "addToSet"
         IN  /\ cats' = AfterUpdate(cats, n, a, fs, k)
             /\ hist' = IF track /\ added
                        THEN [hist EXCEPT ![cats[i].id].supplied =
                                              @ \cup Range(TheValue(fs))]
                        ELSE hist
             /\ ret' = IF f.at = 0
                       THEN Result("update_one", n, a, fs, "none",
                                   FindOne(cats', n), 0, Len(plan))
                       ELSE Result("update_one", n, a, fs, Translate(f.kind),
                                   None, 0, f.at)
             /\ UNCHANGED nextId

Restrict(h, ids) == [d \in (DOMAIN h) \cap ids |-> h[d]]

\* delete_one(name)
DoDeleteOne(n, f) ==
    IF ~IsOpened THEN NotConnected("delete_one", n, None, None)
    ELSE LET i == FirstMatch(cats, n)
         IN  /\ cats' = IF f.at = 0 /\ i # 0 THEN RemoveAt(cats, i) ELSE cats
             /\ hist' = Restrict(hist, {cats'[j].id : j \in 1..Len(cats')})
             /\ ret' = IF f.at = 0
                       THEN Result("delete_one", n, None, None, "none", None,
                                   IF i # 0 THEN 1 ELSE 0, 1)
                       ELSE Result("delete_one", n, None, None, Translate(f.kind),
                                   None, 0, 1)
             /\ UNCHANGED nextId

\* delete_all()
DoDeleteAll(f) ==
    IF ~IsOpened THEN NotConnected("delete_all", "", None, None)
    ELSE /\ cats' = IF f.at = 0 THEN <<>> ELSE cats
         /\ hist' = IF f.at = 0 THEN <<>> ELSE hist
         /\ ret' = IF f.at = 0
                   THEN Result("delete_all", "", None, None, "none", None, Len(cats), 1)
                   ELSE Result("delete_all", "", None, None, Translate(f.kind),
                               None, 0, 1)
         /\ UNCHANGED nextId

storeVars == <<alive, client, db, inWith, connsMade, liveConns, track>>

\* The sequence of calls of the end-to-end example: a cat is created, read,
\* deleted and read again, by its name.
Scenario == <<"create_one", "read_one", "delete_one", "read_one">>

ChainOff == [on |-> FALSE, fresh |-> FALSE, calls |-> <<>>]
ChainOn == [on |-> TRUE, fresh |-> FALSE, calls |-> <<>>]

\* chain.calls holds the results of the latest calls when these are, one
\* directly after the other and all on the name of the first, a successful
\* create_one and the calls of Scenario that follow it; chain.fresh says
\* that no document bore that name when the create_one was called
Follow ==
    chain' =
        IF ~chain.on THEN chain
        ELSE LET k == Len(chain.calls)
             IN  IF /\ k >= 1 /\ k < Len(Scenario)
                    /\ ret'.op = Scenario[k + 1]
                    /\ ret'.name = chain.calls[1].name
                    /\ ret'.raised = "none"
                 THEN [chain EXCEPT !.calls = Append(@, ret')]
                 ELSE IF ret'.op = Scenario[1] /\ ret'.raised = "none"
                 THEN [on |-> TRUE, fresh |-> FirstMatch(cats, ret'.name) = 0,
                       calls |-> <<ret'>>]
                 ELSE ChainOn

Find(cid, f) ==
    /\ alive
    /\ DoFind(cid, f)
    /\ Follow
    /\ UNCHANGED <<storeVars, cliVars, pgVars>>

CreateOne(n, a, fs, f) ==
    /\ alive
    /\ DoCreateOne(n, a, fs, f)
    /\ Follow
    /\ UNCHANGED <<storeVars, cliVars, pgVars>>

ReadOne(n, f) ==
    /\ alive
    /\ DoReadOne(n, f)
    /\ Follow
    /\ UNCHANGED <<storeVars, cliVars, pgVars>>

ReadAll(f) ==
    /\ alive
    /\ DoReadAll(f)
    /\ Follow
    /\ UNCHANGED <<storeVars, cliVars, pgVars>>

UpdateOne(n, a, fs, f) ==
    /\ alive
    /\ f.at <= Len(UpdatePlan(a, fs))
    /\ DoUpdateOne(n, a, fs, f)
    /\ Follow
    /\ UNCHANGED <<storeVars, cliVars, pgVars>>

DeleteOne(n, f) ==
    /\ alive
    /\ DoDeleteOne(n, f)
    /\ Follow
    /\ UNCHANGED <<storeVars, cliVars, pgVars>>

DeleteAll(f) ==
    /\ alive
    /\ DoDeleteAll(f)
    /\ Follow
    /\ UNCHANGED <<storeVars, cliVars, pgVars>>

(***************************************************************************)
(* Exceptions.  client.py defines DatabaseError and DuplicateDatabase as   *)
(* subclasses of the driver's classes of the same names; the driver raises *)
(* its own classes.                                                        *)
(***************************************************************************)
Parent(c) ==
    CASE c = "tasks.DatabaseError" -> "psycopg.DatabaseError"
      [] c = "tasks.DuplicateDatabase" -> "psycopg.DuplicateDatabase"
      [] c = "psycopg.DuplicateDatabase" -> "psycopg.ProgrammingError"
      [] c = "psycopg.ProgrammingError" -> "psycopg.DatabaseError"
      [] c = "psycopg.OperationalError" -> "psycopg.DatabaseError"
      [] c = "psycopg_pool.PoolTimeout" -> "psycopg.OperationalError"
      [] c = "psycopg.DatabaseError" -> "Exception"
      [] c = "IndexError" -> "Exception"
      [] c = "TypeError" -> "Exception"
      [] OTHER -> "object"

\* isinstance(e, c), which is what "except c" tests
RECURSIVE IsInstance(_, _)
IsInstance(e, c) ==
    IF e = c THEN TRUE
    ELSE IF e \in {"none", "object"} THEN FALSE
    ELSE IsInstance(Parent(e), c)

\* what the driver raises for a failing statement
DriverErrors == {"psycopg.ProgrammingError", "psycopg.OperationalError"}

(***************************************************************************)
(* PostgresClient: the scopes.  A scope's log lists the commits and        *)
(* rollbacks made on its connection after the body.                        *)
(***************************************************************************)
\* conn.commit(): ok says whether the server accepts it
Commit(ok) ==
    IF ok THEN [log |-> <<"commit">>, raised |-> "none"]
    ELSE [log |-> <<"commit failed">>, raised |-> "psycopg.OperationalError"]

\* (mutant) a pool context that hands the connection back as an exception
\* left it
PoolContextExitAsLeft(exc, ok) ==
    IF exc = "none" THEN Commit(ok)
    ELSE [log |-> <<>>, raised |-> exc]

\* the end of "with self._pool.connection() as conn": the pool's context
\* commits on a normal exit and rolls back on an exception
PoolContextExit(exc, ok) ==
    IF exc = "none" THEN Commit(ok)
    ELSE [log |-> <<"rollback">>, raised |-> exc]

\* execute / executemany / fetch_one / fetch_all after the statement:
\* exc is what the statement raised
Helper(exc, ok) == PoolContextExit(exc, ok)

\* (mutant) transaction() with conn.commit() in a finally clause
TransactionCommitInFinally(exc, ok) ==
    LET inner == [log |-> Commit(ok).log,
                  raised |-> IF exc = "none" THEN Commit(ok).raised ELSE exc]
        outer == PoolContextExit(inner.raised, TRUE)
    IN  [log |-> inner.log \o outer.log, raised |-> outer.raised]

\* transaction() after the body: exc is what the body raised, ok whether
\* the server accepts conn.commit()
Transaction(exc, ok) ==
    LET inner == IF exc = "none" THEN Commit(ok)
                 ELSE [log |-> <<>>, raised |-> exc]
        handled == IF IsInstance(inner.raised, "tasks.DatabaseError")
                   THEN [log |-> inner.log \o <<"rollback">>, raised |-> inner.raised]
                   ELSE inner
        outer == PoolContextExit(handled.raised, TRUE)
    IN  [log |-> handled.log \o outer.log, raised |-> outer.raised]

(***************************************************************************)
(* Callers of one PostgresClient, each running one operation at a time.    *)
(***************************************************************************)
Threads == 1..NThreads
PgOps == {"transaction", "execute", "executemany", "fetch_one", "fetch_all"}
BodyOutcomes == {"none", "psycopg.ProgrammingError", "tasks.DatabaseError", "TypeError"}
StatementOutcomes == {"none", "psycopg.ProgrammingError"}

Idle == [pc |-> "idle", op |-> "none", exc |-> "none", log |-> <<>>,
         raised |-> "none", holds |-> FALSE, borrows |-> 0, returns |-> 0,
         pending |-> FALSE, durable |-> FALSE]

InitPool ==
    /\ pg_config \in [max_size : 1..MaxPool, autocommit : BOOLEAN]
    /\ pool_free = pg_config.max_size
    /\ th = [t \in Threads |-> Idle]

InitPoolOff ==
    /\ pg_config = [max_size |-> 0, autocommit |-> FALSE]
    /\ pool_free = 0
    /\ th = <<>>

PgCall(t, op) ==
    /\ th[t].pc = "idle"
    /\ th' = [th EXCEPT ![t] = [Idle EXCEPT !.pc = "acquire", !.op = op]]
    /\ UNCHANGED <<pg_config, pool_free, docVars, cliVars, cdVars, ctVars, sdVars>>

\* self._pool.connection(): getconn hands out an idle connection
PgAcquire(t) ==
    /\ th[t].pc = "acquire"
    /\ pool_free > 0
    /\ pool_free' = pool_free - 1
    /\ th' = [th EXCEPT ![t].pc = "body", ![t].holds = TRUE, ![t].borrows = @ + 1]
    /\ UNCHANGED <<pg_config, docVars, cliVars, cdVars, ctVars, sdVars>>

\* getconn finds no idle connection for config.timeout seconds
PgTimeout(t) ==
    /\ th[t].pc = "acquire"
    /\ pool_free = 0
    /\ th' = [th EXCEPT ![t].pc = "done", ![t].raised = "psycopg_pool.PoolTimeout"]
    /\ UNCHANGED <<pg_config, pool_free, docVars, cliVars, cdVars, ctVars, sdVars>>

\* the statements of the operation: exc is what they raise, worked whether
\* one of them changed data before that
PgBody(t, exc, worked) ==
    /\ th[t].pc = "body"
    /\ exc \in (IF th[t].op = "transaction" THEN BodyOutcomes ELSE StatementOutcomes)
    /\ exc = "none" => worked
    /\ th' = [th EXCEPT ![t].pc = "exit", ![t].exc = exc,
                        ![t].pending = worked /\ ~pg_config.autocommit,
                        ![t].durable = worked /\ pg_config.autocommit]
    /\ UNCHANGED <<pg_config, pool_free, docVars, cliVars, cdVars, ctVars, sdVars>>

Scope(op, exc, ok) ==
    IF op = "transaction" THEN Transaction(exc, ok) ELSE Helper(exc, ok)

Resolves(log) == \E i \in 1..Len(log) : log[i] \in {"commit", "rollback"}

\* (mutant) getconn / putconn without the context manager: an exception
\* skips putconn
PgExitLeaking(t, ok) ==
    /\ th[t].pc = "exit"
    /\ (th[t].exc # "none" => ok)
    /\ LET r == Scope(th[t].op, th[t].exc, ok)
           back == r.raised = "none"
       IN  /\ th' = [th EXCEPT ![t].pc = "done", ![t].log = r.log, ![t].raised = r.raised,
                               ![t].holds = ~back,
                               ![t].returns = IF back THEN @ + 1 ELSE @]
           /\ pool_free' = IF back THEN pool_free + 1 ELSE pool_free
    /\ UNCHANGED <<pg_config, docVars, cliVars, cdVars, ctVars, sdVars>>

\* the scope is left and putconn returns the connection to the pool
PgExit(t, ok) ==
    /\ th[t].pc = "exit"
    /\ (th[t].exc # "none" => ok)
    /\ LET r == Scope(th[t].op, th[t].exc, ok)
       IN  th' = [th EXCEPT ![t].pc = "done", ![t].log = r.log, ![t].raised = r.raised,
                            ![t].holds = FALSE, ![t].returns = @ + 1,
                            ![t].durable = @ \/ (th[t].pending /\ r.log # <<>>
                                                  /\ r.log[1] = "commit"),
                            ![t].pending = @ /\ ~Resolves(r.log)]
    /\ pool_free' = pool_free + 1
    /\ UNCHANGED <<pg_config, docVars, cliVars, cdVars, ctVars, sdVars>>

\* the caller takes the result; its next operation may follow
PgReturn(t) ==
    /\ th[t].pc = "done"
    /\ th' = [th EXCEPT ![t] = Idle]
    /\ UNCHANGED <<pg_config, pool_free, docVars, cliVars, cdVars, ctVars, sdVars>>

(***************************************************************************)
(* create_database(host, port, user, password, dbname, logger), run by     *)
(* several processes against one server.                                   *)
(***************************************************************************)
Procs == 1..NProcs
DbNames == {"hw", "test"}

\* an invocation; after and solo are history: after says that an invocation
\* for the same name had returned True before this one began, solo that no
\* other invocation for the name has run at the same time as this one
NotStarted == [pc |-> "off", name |-> "", exists |-> FALSE, issued |-> FALSE,
               raised |-> "none", result |-> None, closed |-> FALSE,
               after |-> FALSE, solo |-> FALSE]

Running(q, name) == cd[q].pc \in {"check", "create"} /\ cd[q].name = name

Returned(q, name) ==
    cd[q].pc = "done" /\ cd[q].name = name /\ cd[q].result = Some(TRUE)

InitCd ==
    /\ catalog \in [DbNames -> {0, 1}]
    /\ cd = [p \in Procs |-> NotStarted]

InitCdOff ==
    /\ catalog = <<>>
    /\ cd = <<>>

\* pg_client = PostgresClient(PgConfig(dsn=".../postgres", autocommit=True, ...))
CdStart(p, name) ==
    /\ cd[p].pc = "off"
    /\ cd' = [q \in Procs |->
                IF q = p
                THEN [NotStarted EXCEPT
                         !.pc = "check", !.name = name,
                         !.after = \E r \in Procs \ {p} : Returned(r, name),
                         !.solo = \A r \in Procs \ {p} : ~Running(r, name)]
                ELSE IF Running(q, name) THEN [cd[q] EXCEPT !.solo = FALSE]
                ELSE cd[q]]
    /\ UNCHANGED <<catalog, docVars, cliVars, poolVars, ctVars, sdVars>>

\* (mutant) create_database without the test of exists
CdCheckAlwaysCreates(p, exc) ==
    /\ cd[p].pc = "check"
    /\ LET r == Helper(exc, TRUE)
       IN  cd' = IF r.raised # "none"
                 THEN [cd EXCEPT ![p].pc = "done", ![p].raised = r.raised,
                                 ![p].result = Some(FALSE), ![p].closed = TRUE]
                 ELSE [cd EXCEPT ![p].pc = "create"]
    /\ UNCHANGED <<catalog, docVars, cliVars, poolVars, ctVars, sdVars>>

\* exists = pg_client.fetch_one("select EXISTS(...)"): exc is what the
\* statement raises; a failure ends in "except Exception" and "finally"
CdCheck(p, exc) ==
    /\ cd[p].pc = "check"
    /\ LET r == Helper(exc, TRUE)
           found == catalog[cd[p].name] > 0
       IN  cd' = IF r.raised # "none"
                 THEN [cd EXCEPT ![p].pc = "done", ![p].raised = r.raised,
                                 ![p].result = Some(FALSE), ![p].closed = TRUE]
                 ELSE IF found
                 THEN [cd EXCEPT ![p].pc = "done", ![p].exists = TRUE,
                                 ![p].result = Some(TRUE), ![p].closed = TRUE]
                 ELSE [cd EXCEPT ![p].pc = "create"]
    /\ UNCHANGED <<catalog, docVars, cliVars, poolVars, ctVars, sdVars>>

\* the server's answer to CREATE DATABASE name, exc being a failure of its
\* own (permissions, connection)
CreateRaises(name, exc) ==
    IF catalog[name] > 0 THEN "psycopg.DuplicateDatabase" ELSE exc

\* try: pg_client.execute("CREATE DATABASE ...") except DuplicateDatabase: ...
\* then return True; except Exception: return False; finally: close()
CdCreate(p, exc) ==
    /\ cd[p].pc = "create"
    /\ LET r == Helper(CreateRaises(cd[p].name, exc), TRUE)
           suppressed == IsInstance(r.raised, "tasks.DuplicateDatabase")
       IN  /\ catalog' = IF r.raised = "none"
                         THEN [catalog EXCEPT ![cd[p].name] = @ + 1]
                         ELSE catalog
           /\ cd' = [cd EXCEPT ![p].pc = "done", ![p].issued = TRUE,
                               ![p].raised = r.raised,
                               ![p].result = Some(r.raised = "none" \/ suppressed),
                               ![p].closed = TRUE]
    /\ UNCHANGED <<docVars, cliVars, poolVars, ctVars, sdVars>>

\* the process ends; a later invocation may follow
CdAgain(p) ==
    /\ cd[p].pc = "done"
    /\ cd' = [cd EXCEPT ![p] = NotStarted]
    /\ UNCHANGED <<catalog, docVars, cliVars, poolVars, ctVars, sdVars>>

(***************************************************************************)
(* create_tables(host, port, user, password, dbname, logger)               *)
(***************************************************************************)
TableOrder == <<"users", "status", "tasks">>

\* what each CREATE ... IF NOT EXISTS script creates
Creates(t) ==
    IF t = "tasks" THEN {"tasks", "idx_tasks_status_id", "idx_tasks_user_id"}
    ELSE {t}

\* tasks references status (id) and users (id)
Needs(t) == IF t = "tasks" THEN {"status", "users"} ELSE {}

Schemas == {s \in SUBSET (Creates("users") \cup Creates("status") \cup Creates("tasks")) :
               /\ "tasks" \in s => Needs("tasks") \subseteq s
               /\ s \cap {"idx_tasks_status_id", "idx_tasks_user_id"} # {} => "tasks" \in s}

InitCt ==
    /\ tables \in Schemas
    /\ ct = [run |-> 1, pc |-> 1, attempts |-> <<>>, result |-> None, closed |-> FALSE]

InitCtOff ==
    /\ tables = {}
    /\ ct = <<>>

\* cur.execute(sql) on the server, exc being a failure of its own
DdlRaises(t, exc) ==
    IF ~(Needs(t) \subseteq tables) THEN "psycopg.ProgrammingError" ELSE exc

\* create_table(pg_client, sql, logger): what it returns ({TRUE}, {FALSE})
\* or {} when the exception r.raised leaves it
CreateTableReturns(r) ==
    IF r.raised = "none" THEN Some(TRUE)
    ELSE IF IsInstance(r.raised, "tasks.DatabaseError") THEN Some(FALSE)
    ELSE None

\* (mutant) create_tables going on to the next table after an exception
AfterCreateTableGoingOn(returned) ==
    IF ct.pc = Len(TableOrder)
    THEN [pc |-> Len(TableOrder) + 1, result |-> Some(returned # None), closed |-> TRUE]
    ELSE [pc |-> ct.pc + 1, result |-> None, closed |-> FALSE]

\* what create_tables does after create_table returned or raised
AfterCreateTable(returned) ==
    IF returned = None
    THEN [pc |-> Len(TableOrder) + 1, result |-> Some(FALSE), closed |-> TRUE]
    ELSE IF ct.pc = Len(TableOrder)
    THEN [pc |-> Len(TableOrder) + 1, result |-> Some(TRUE), closed |-> TRUE]
    ELSE [pc |-> ct.pc + 1, result |-> None, closed |-> FALSE]

\* one "if create_table(...)" of create_tables, and the return / except /
\* finally that follow it
CreateTableStep(exc, ok) ==
    /\ ct.pc \in 1..Len(TableOrder)
    /\ (exc # "none" => ok)
    /\ LET t == TableOrder[ct.pc]
           r == IF exc = "psycopg_pool.PoolTimeout"
                THEN [log |-> <<>>, raised |-> exc]
                ELSE Transaction(DdlRaises(t, exc), ok)
           committed == r.log # <<>> /\ r.log[1] = "commit"
           go == AfterCreateTable(CreateTableReturns(r))
       IN  /\ tables' = IF committed THEN tables \cup Creates(t) ELSE tables
           /\ ct' = [run |-> ct.run, pc |-> go.pc,
                     attempts |-> Append(ct.attempts,
                                         [table |-> t, raised |-> r.raised, log |-> r.log,
                                          returned |-> CreateTableReturns(r)]),
                     result |-> go.result, closed |-> go.closed]
    /\ UNCHANGED <<docVars, cliVars, poolVars, cdVars, sdVars>>

\* the script is run again on the database the last run left
CreateTablesAgain ==
    /\ ct.pc = Len(TableOrder) + 1
    /\ ct' = [run |-> ct.run + 1, pc |-> 1, attempts |-> <<>>, result |-> None,
              closed |-> FALSE]
    /\ UNCHANGED <<tables, docVars, cliVars, poolVars, cdVars, sdVars>>

(***************************************************************************)
(* seed(host, port, user, password, dbname, logger)                        *)
(***************************************************************************)
\* generate_fake_data: the e-mails of the users and the number of tasks
FakeEmails == {"a@x", "b@x"}
FakeTasks == 2

InitSd ==
    /\ rows \in [users : SUBSET (FakeEmails \cup {"old@x"}), status : SUBSET {"new"},
                 tasks : {0, FakeTasks}]
    /\ sd = [pc |-> "users", usersExc |-> "none", users |-> None, raised |-> "none",
             attempted |-> FALSE, tasks |-> None, tasks0 |-> rows.tasks]

InitSdOff ==
    /\ rows = <<>>
    /\ sd = <<>>

\* (mutant) the functions log every exception and return True
FillReturnsTrue(raised) == Some(TRUE)

\* what fill_users_data / fill_tasks_data return ({TRUE}, {FALSE}) or {}
\* when the exception raised leaves them
FillReturns(raised) ==
    IF raised = "none" THEN Some(TRUE)
    ELSE IF IsInstance(raised, "tasks.DatabaseError") THEN Some(FALSE)
    ELSE None

\* if fill_users_data(pg_client, users, logger): fill_tasks_data(...)
AfterUsers(returned) == IF returned = Some(TRUE) THEN "tasks" ELSE "done"

\* fill_users_data(pg_client, users, logger):
\* exc is what executemany raises, part the users inserted before it
SeedUsers(exc, part) ==
    /\ sd.pc = "users"
    /\ (exc = "none" => part = FakeEmails)
    /\ LET r == Helper(exc, TRUE)
           returned == FillReturns(r.raised)
       IN  /\ rows' = [rows EXCEPT !.users = @ \cup part]
           /\ sd' = [sd EXCEPT !.usersExc = r.raised,
                               !.users = returned,
                               !.raised = IF returned = None THEN r.raised ELSE "none",
                               !.pc = AfterUsers(returned)]
    /\ UNCHANGED <<docVars, cliVars, poolVars, cdVars, ctVars>>

\* what fill_tasks_data raises: exc is the failure of its at-th statement
\* (the two fetch_all, then executemany); random.choice of an empty list
\* raises IndexError
FillTasksRaises(exc, at) ==
    IF exc # "none" /\ at <= 2 THEN exc
    ELSE IF FakeTasks > 0 /\ (rows.status = {} \/ rows.users = {}) THEN "IndexError"
    ELSE exc

\* fill_tasks_data(pg_client, tasks, logger)
SeedTasks(exc, at) ==
    /\ sd.pc = "tasks"
    /\ (exc = "none" => at = 3)
    /\ LET r == Helper(FillTasksRaises(exc, at), TRUE)
           returned == FillReturns(r.raised)
       IN  /\ rows' = IF r.raised = "none"
                      THEN [rows EXCEPT !.tasks = @ + FakeTasks]
                      ELSE rows
           /\ sd' = [sd EXCEPT !.tasks = returned,
                               !.attempted = TRUE,
                               !.raised = IF returned = None THEN r.raised ELSE "none",
                               !.pc = "done"]
    /\ UNCHANGED <<docVars, cliVars, poolVars, cdVars, ctVars>>

InitDoc ==
    /\ alive = TRUE
    /\ client = None
    /\ db = None
    /\ inWith = FALSE
    /\ connsMade = 0
    /\ liveConns = {}
    /\ cats = <<>>
    /\ nextId = 1
    /\ hist = <<>>
    /\ ret = NoCall

(***************************************************************************)
(* cli(uri, dbname): one run of the command-line tool.                     *)
(***************************************************************************)
\* Actions.values()
ActionValues == {"create", "read", "update", "delete"}

\* int(s), as argparse's type=int applies it: {} when it raises ValueError
ParseInt(s) ==
    CASE s = "1" -> Some(1)
      [] s = "2" -> Some(2)
      [] OTHER -> None

NoArgs == [action |-> "", name |-> None, age |-> None, features |-> None]

InitCli ==
    /\ cli_pc = "off"
    /\ cli_args = NoArgs
    /\ cli_exit = None
    /\ cli_out = "none"

\* parser.parse_args(): an action outside choices, or an --age that int()
\* rejects, makes argparse print the usage and raise SystemExit(2), which
\* "except Exception" does not catch
CliParse(action, name, age, features) ==
    /\ cli_pc = "off"
    /\ IF action \notin ActionValues \/ (age # None /\ ParseInt(TheValue(age)) = None)
       THEN /\ cli_pc' = "exited"
            /\ cli_exit' = Some(2)
            /\ cli_out' = "usage"
            /\ cli_args' = NoArgs
       ELSE /\ cli_pc' = "enter"
            /\ cli_args' = [action |-> action, name |-> name,
                            age |-> IF age = None THEN None ELSE ParseInt(TheValue(age)),
                            features |-> features]
            /\ UNCHANGED <<cli_exit, cli_out>>
    /\ UNCHANGED <<docVars, pgVars>>

\* with MongoDB(uri, dbname) as db: the constructor and __enter__; when
\* __enter__ raises, the exception is printed and exit(0) follows
CliEnter(outcome) ==
    /\ cli_pc = "enter"
    /\ alive
    /\ DoEnter(outcome)
    /\ IF ret'.raised = "none"
       THEN /\ cli_pc' = "run"
            /\ UNCHANGED <<cli_exit, cli_out>>
       ELSE /\ cli_pc' = "exited"
            /\ cli_exit' = Some(0)
            /\ cli_out' = "exception"
    /\ UNCHANGED <<alive, cats, nextId, hist, track, chain, cli_args, pgVars>>

Printed(found, missing) ==
    IF ret'.raised # "none" THEN "exception"
    ELSE IF ret'.doc # None THEN found ELSE missing

\* match Actions(args.action): the one operation of the run
CliRun(f) ==
    /\ cli_pc = "run"
    /\ LET a == cli_args
           named == a.name # None
           n == IF named THEN TheValue(a.name) ELSE ""
       IN  \/ /\ a.action = "create" /\ named
              /\ DoCreateOne(n, a.age, a.features, f)
              /\ cli_out' = Printed("cat", "not added")
           \/ /\ a.action = "read" /\ named
              /\ f.at <= 1
              /\ DoReadOne(n, f)
              /\ cli_out' = Printed("cat", "not found")
           \/ /\ a.action = "read" /\ ~named
              /\ f.at <= 1
              /\ DoReadAll(f)
              /\ cli_out' = IF ret'.raised # "none" THEN "exception"
                             ELSE IF ret'.count > 0 THEN "cats" ELSE "empty"
           \/ /\ a.action = "update" /\ named
              /\ f.at <= Len(UpdatePlan(a.age, a.features))
              /\ DoUpdateOne(n, a.age, a.features, f)
              /\ cli_out' = Printed("cat", "not found")
           \/ /\ a.action = "delete" /\ named
              /\ f.at <= 1
              /\ DoDeleteOne(n, f)
              /\ cli_out' = IF ret'.raised # "none" THEN "exception" ELSE "deleted"
           \/ /\ a.action = "delete" /\ ~named
              /\ f.at <= 1
              /\ DoDeleteAll(f)
              /\ cli_out' = IF ret'.raised # "none" THEN "exception" ELSE "deleted"
           \/ /\ a.action \in {"create", "update"} /\ ~named
              /\ f.at = 0
              /\ cli_out' = "no name"
              /\ UNCHANGED <<cats, nextId, hist, ret>>
    /\ cli_pc' = "leave"
    /\ UNCHANGED <<storeVars, chain, cli_args, cli_exit, pgVars>>

\* the with block is left (__exit__), an exception of the run is printed
\* by "except Exception", and exit(0) ends the process
CliLeave ==
    /\ cli_pc = "leave"
    /\ DoExit(ret.raised)
    /\ cli_pc' = "exited"
    /\ cli_exit' = Some(0)
    /\ UNCHANGED <<alive, cats, nextId, hist, track, chain, cli_args, cli_out, pgVars>>

\* the next run of the tool: a new process and a new MongoDB object
CliAgain ==
    /\ cli_pc = "exited"
    /\ cli_pc' = "off"
    /\ cli_args' = NoArgs
    /\ cli_exit' = None
    /\ cli_out' = "none"
    /\ alive' = TRUE
    /\ client' = None
    /\ db' = None
    /\ inWith' = FALSE
    /\ liveConns' = {}
    /\ ret' = NoCall
    /\ UNCHANGED <<connsMade, cats, nextId, hist, track, chain, pgVars>>

(***************************************************************************)
(* SpecStore: the open/close state machine of one MongoDB object, with     *)
(* every data operation callable in every state.                           *)
(***************************************************************************)
StoreNames == {"Tom"}
StoreAges == Optional({1})
StoreFeats == Optional({<<"x">>})

CanConnect(o, max) == IsOpened \/ o # "ok" \/ connsMade < max
CanInsert(f, max) == (IsOpened /\ f.at # 1) => nextId <= max

InitStore == InitDoc /\ InitCli /\ InitPoolOff /\ InitCdOff /\ InitCtOff /\ InitSdOff /\ track = FALSE /\ chain = ChainOff

NextStore ==
    \/ New
    \/ \E o \in OpenOutcomes : CanConnect(o, MaxOpens) /\ Open(o)
    \/ Close
    \/ \E o \in OpenOutcomes : CanConnect(o, MaxOpens) /\ Enter(o)
    \/ \E exc \in {"none", "RuntimeError"} : Exit(exc)
    \/ Del
    \/ \E c \in CatIds(MaxCats), f \in Failures(1, ErrKinds) : Find(c, f)
    \/ \E n \in StoreNames, a \in StoreAges, fs \in StoreFeats,
          f \in Failures(2, ErrKinds) : CanInsert(f, MaxCats) /\ CreateOne(n, a, fs, f)
    \/ \E n \in StoreNames, f \in Failures(1, ErrKinds) : ReadOne(n, f)
    \/ \E f \in Failures(1, ErrKinds) : ReadAll(f)
    \/ \E n \in StoreNames, a \in StoreAges, fs \in StoreFeats,
          f \in Failures(3, ErrKinds) : UpdateOne(n, a, fs, f)
    \/ \E n \in StoreNames, f \in Failures(1, ErrKinds) : DeleteOne(n, f)
    \/ \E f \in Failures(1, ErrKinds) : DeleteAll(f)

SpecStore == InitStore /\ [][NextStore]_vars

(***************************************************************************)
(* SpecCrud: the data operations on a collection that may hold several     *)
(* cats, some of the same name.                                            *)
(***************************************************************************)
CrudNames == {"Tom", "Kit"}
CrudAges == Optional({1})
CrudFeats == Optional({<<"x">>, <<"x", "y">>})
CrudKinds == {"OperationFailure"}

InitCrud == InitDoc /\ InitCli /\ InitPoolOff /\ InitCdOff /\ InitCtOff /\ InitSdOff /\ track = FALSE /\ chain = ChainOff

NextCrud ==
    \/ \E o \in OpenOutcomes : CanConnect(o, MaxConns) /\ Open(o)
    \/ \E n \in CrudNames, a \in CrudAges, fs \in CrudFeats,
          f \in Failures(2, CrudKinds) : CanInsert(f, MaxCreates) /\ CreateOne(n, a, fs, f)
    \/ \E n \in CrudNames, f \in Failures(1, CrudKinds) : ReadOne(n, f)
    \/ \E n \in CrudNames, a \in CrudAges, fs \in CrudFeats,
          f \in Failures(3, CrudKinds) : UpdateOne(n, a, fs, f)
    \/ \E n \in CrudNames, f \in Failures(1, CrudKinds) : DeleteOne(n, f)
    \/ \E f \in Failures(1, CrudKinds) : DeleteAll(f)

SpecCrud == InitCrud /\ [][NextCrud]_vars

(***************************************************************************)
(* SpecAbsent: read_one, update_one and delete_one on a collection of few  *)
(* cats, called with the names it holds and with names it does not hold.   *)
(***************************************************************************)
InitAbsent ==
    /\ InitDoc /\ InitCli /\ InitPoolOff /\ InitCdOff /\ InitCtOff /\ InitSdOff
    /\ track = FALSE
    /\ chain = ChainOff

NextAbsent ==
    \/ \E o \in OpenOutcomes : CanConnect(o, MaxConns) /\ Open(o)
    \/ \E n \in CrudNames, f \in Failures(2, CrudKinds) :
          CanInsert(f, MaxCats) /\ CreateOne(n, None, None, f)
    \/ \E n \in CrudNames, f \in Failures(1, CrudKinds) : ReadOne(n, f)
    \/ \E n \in CrudNames, a \in CrudAges, fs \in CrudFeats,
          f \in Failures(3, CrudKinds) : UpdateOne(n, a, fs, f)
    \/ \E n \in CrudNames, f \in Failures(1, CrudKinds) : DeleteOne(n, f)

SpecAbsent == InitAbsent /\ [][NextAbsent]_vars

(***************************************************************************)
(* SpecChain: create_one, read_one and delete_one called one after the     *)
(* other, the calls of Scenario being followed in chain.                   *)
(***************************************************************************)
ChainAges == Optional({1, 2})
ChainFeats == Optional({<<>>, <<"x">>})

InitChain ==
    /\ InitDoc /\ InitCli /\ InitPoolOff /\ InitCdOff /\ InitCtOff /\ InitSdOff
    /\ track = FALSE
    /\ chain = ChainOn

NextChain ==
    \/ \E o \in OpenOutcomes : CanConnect(o, MaxConns) /\ Open(o)
    \/ \E n \in CrudNames, a \in ChainAges, fs \in ChainFeats,
          f \in Failures(2, CrudKinds) : CanInsert(f, MaxCreates) /\ CreateOne(n, a, fs, f)
    \/ \E n \in CrudNames, f \in Failures(1, CrudKinds) : ReadOne(n, f)
    \/ \E n \in CrudNames, f \in Failures(1, CrudKinds) : DeleteOne(n, f)

SpecChain == InitChain /\ [][NextChain]_vars

(***************************************************************************)
(* SpecFeat: creations and updates of cats with every feature list of up   *)
(* to two values, the features given to each cat recorded in hist.         *)
(***************************************************************************)
FeatNames == {"Tom"}
FeatValues == {"x", "y"}
FeatLists == {<<>>} \cup {<<v>> : v \in FeatValues}
                \cup {<<v, w>> : v \in FeatValues, w \in FeatValues}

InitFeat == InitDoc /\ InitCli /\ InitPoolOff /\ InitCdOff /\ InitCtOff /\ InitSdOff /\ track = TRUE /\ chain = ChainOff

NextFeat ==
    \/ \E o \in OpenOutcomes : CanConnect(o, MaxConns) /\ Open(o)
    \/ \E n \in FeatNames, fs \in Optional(FeatLists), f \in Failures(2, CrudKinds) :
          CanInsert(f, MaxCats) /\ CreateOne(n, None, fs, f)
    \/ \E n \in FeatNames, fs \in Optional(FeatLists), f \in Failures(3, CrudKinds) :
          UpdateOne(n, None, fs, f)
    \/ \E n \in FeatNames : DeleteOne(n, NoFailure)

SpecFeat == InitFeat /\ [][NextFeat]_vars

(***************************************************************************)
(* SpecCli: runs of the command-line tool, one after the other, on one     *)
(* server.                                                                 *)
(***************************************************************************)
CliActionArgs == ActionValues \cup {"list"}
CliNameArgs == Optional({"Tom"})
CliAgeArgs == Optional({"1", "abc"})
CliFeatureArgs == Optional({<<"x">>})

InitCliSpec == InitDoc /\ InitCli /\ InitPoolOff /\ InitCdOff /\ InitCtOff /\ InitSdOff /\ track = FALSE /\ chain = ChainOff

NextCli ==
    \/ \E action \in CliActionArgs, name \in CliNameArgs, age \in CliAgeArgs,
          features \in CliFeatureArgs : CliParse(action, name, age, features)
    \/ \E o \in OpenOutcomes : CanConnect(o, MaxRuns) /\ CliEnter(o)
    \/ \E f \in Failures(3, ErrKinds) :
          /\ (cli_args.action = "create" /\ cli_args.name # None) => CanInsert(f, MaxCats)
          /\ CliRun(f)
    \/ CliLeave
    \/ CliAgain

SpecCli == InitCliSpec /\ [][NextCli]_vars

(***************************************************************************)
(* SpecPool: concurrent callers of one PostgresClient.                     *)
(***************************************************************************)
InitPoolSpec ==
    InitDoc /\ InitCli /\ track = FALSE /\ chain = ChainOff /\ InitPool /\ InitCdOff /\ InitCtOff /\ InitSdOff

NextPool ==
    \/ \E t \in Threads, op \in PgOps : PgCall(t, op)
    \/ \E t \in Threads : PgAcquire(t)
    \/ \E t \in Threads : PgTimeout(t)
    \/ \E t \in Threads, exc \in BodyOutcomes, worked \in BOOLEAN : PgBody(t, exc, worked)
    \/ \E t \in Threads, ok \in BOOLEAN : PgExit(t, ok)
    \/ \E t \in Threads : PgReturn(t)

SpecPool == InitPoolSpec /\ [][NextPool]_vars

(***************************************************************************)
(* SpecCreateDb: invocations of create_database, concurrent or one after   *)
(* the other.                                                              *)
(***************************************************************************)
StatementErrors == {"none"} \cup DriverErrors \cup {"psycopg_pool.PoolTimeout"}

InitCreateDb ==
    InitDoc /\ InitCli /\ track = FALSE /\ chain = ChainOff /\ InitPoolOff /\ InitCd /\ InitCtOff /\ InitSdOff

NextCreateDb ==
    \/ \E p \in Procs, name \in DbNames : CdStart(p, name)
    \/ \E p \in Procs, exc \in StatementErrors : CdCheck(p, exc)
    \/ \E p \in Procs, exc \in StatementErrors : CdCreate(p, exc)
    \/ \E p \in Procs : CdAgain(p)

SpecCreateDb == InitCreateDb /\ [][NextCreateDb]_vars

(***************************************************************************)
(* SpecTables: one invocation of create_tables on a database that may hold *)
(* some of the tables already.                                             *)
(***************************************************************************)
InitTables ==
    InitDoc /\ InitCli /\ track = FALSE /\ chain = ChainOff /\ InitPoolOff /\ InitCdOff /\ InitCt /\ InitSdOff

NextTables ==
    \/ \E exc \in StatementErrors, ok \in BOOLEAN : CreateTableStep(exc, ok)
    \/ ct.run < MaxRuns /\ CreateTablesAgain

SpecTables == InitTables /\ [][NextTables]_vars

(***************************************************************************)
(* SpecSeed: one invocation of seed on a database that may hold rows.      *)
(***************************************************************************)
InitSeed ==
    InitDoc /\ InitCli /\ track = FALSE /\ chain = ChainOff /\ InitPoolOff /\ InitCdOff /\ InitCtOff /\ InitSd

NextSeed ==
    \/ \E exc \in StatementErrors, part \in SUBSET FakeEmails : SeedUsers(exc, part)
    \/ \E exc \in StatementErrors, at \in 1..3 : SeedTasks(exc, at)

SpecSeed == InitSeed /\ [][NextSeed]_vars

(***************************************************************************)
(* Properties.                                                             *)
(***************************************************************************)
\* what was raised inside a transaction scope: by the body, or by commit
RaisedInside(r) ==
    IF r.exc # "none" THEN r.exc
    ELSE IF r.log # <<>> /\ r.log[1] = "commit failed" THEN "psycopg.OperationalError"
    ELSE "none"

Has(log, e) == \E i \in 1..Len(log) : log[i] = e

Finished(t) == th[t].pc = "done" /\ th[t].borrows = 1

\* C1: a transaction() scope whose body exits normally commits the
\* connection's work; when a database error is raised inside the scope, by
\* the body or by the commit, a rollback is made on the connection, the same
\* error reaches the caller, and the scope commits nothing.
C1_TransactionCommitsOrRollsBack ==
    \A t \in Threads :
        (Finished(t) /\ th[t].op = "transaction") =>
            LET r == th[t]
                e == RaisedInside(r)
            IN  /\ (e = "none") =>
                    /\ r.log # <<>> /\ r.log[1] = "commit"
                    /\ r.raised = "none"
                    /\ r.durable
                /\ IsInstance(e, "psycopg.DatabaseError") =>
                    /\ Has(r.log, "rollback")
                    /\ r.raised = e
                    /\ ~Has(r.log, "commit")
                    /\ ~r.pending
                    /\ (~pg_config.autocommit => ~r.durable)

C1_Witness ==
    \E t \in Threads :
        /\ Finished(t) /\ th[t].op = "transaction"
        /\ th[t].exc = "psycopg.ProgrammingError"
        /\ th[t].raised = "psycopg.ProgrammingError"
        /\ Has(th[t].log, "rollback")
        /\ ~pg_config.autocommit

\* C2: an invocation of create_database whose CREATE DATABASE fails with a
\* duplicate-database error, another invocation having created the database
\* after both saw it absent, returns True, and one database of that name
\* exists afterwards.
C2_DuplicateIsSuccess ==
    \A p \in Procs :
        (cd[p].pc = "done" /\ cd[p].issued
            /\ IsInstance(cd[p].raised, "psycopg.DuplicateDatabase")) =>
                /\ cd[p].result = Some(TRUE)
                /\ catalog[cd[p].name] = 1

\* C4: an operation holds one connection of the pool from its start to its
\* end and returns it once, however it ends; no more connections are out
\* than max_size, and none is out when no operation is running.
C4_BorrowOneReturnOnce ==
    LET out == {t \in Threads : th[t].holds}
    IN  /\ pool_free + Cardinality(out) = pg_config.max_size
        /\ pool_free >= 0
        /\ \A t \in Threads :
            /\ th[t].pc \in {"body", "exit"} =>
                   (th[t].holds /\ th[t].borrows = 1 /\ th[t].returns = 0)
            /\ th[t].pc \in {"idle", "acquire", "done"} => ~th[t].holds
            /\ th[t].pc = "done" =>
                   /\ th[t].returns = th[t].borrows
                   /\ th[t].borrows = 1 <=> th[t].raised # "psycopg_pool.PoolTimeout"
        /\ (\A t \in Threads : th[t].pc \in {"idle", "done"}) =>
               pool_free = pg_config.max_size

C4_Witness ==
    \E t, u \in Threads :
        /\ th[t].pc = "done" /\ th[t].returns = 1
        /\ th[t].raised \notin {"none", "psycopg_pool.PoolTimeout"}
        /\ th[u].holds
        /\ pool_free = 0

\* C5: create_tables attempts users, status, tasks in that order, each in a
\* transaction that is over before the next one starts; an exception leaving
\* one creation ends the call, which returns False without attempting the
\* rest, and what was committed before stays.
C5_OrderedAndAbortedByException ==
    LET n == Len(ct.attempts)
    IN  /\ n <= Len(TableOrder)
        /\ ct.pc = (IF ct.result = None THEN n + 1 ELSE Len(TableOrder) + 1)
        /\ \A i \in 1..n :
            LET a == ct.attempts[i]
            IN  /\ a.table = TableOrder[i]
                /\ a.log # <<>> => a.log[Len(a.log)] \in {"commit", "rollback"}
                /\ (a.log # <<>> /\ a.log[1] = "commit") => Creates(a.table) \subseteq tables
                /\ a.returned = None =>
                       (i = n /\ ct.result = Some(FALSE) /\ ct.closed)
        /\ ct.result = Some(TRUE) =>
               (n = Len(TableOrder) /\ \A i \in 1..n : ct.attempts[i].returned # None)

C5_Witness ==
    /\ Len(ct.attempts) = 2
    /\ ct.attempts[1].log[1] = "commit"
    /\ ct.attempts[2].returned = None
    /\ ct.result = Some(FALSE)
    /\ "users" \in tables /\ "status" \notin tables

\* C6: seed attempts the insertion of tasks only after the insertion of
\* users succeeded; when the insertion of users fails, by returning False or
\* by raising, no row is added to tasks.
C6_NoTasksWithoutUsers ==
    /\ (sd.attempted \/ sd.pc = "tasks") => (sd.usersExc = "none" /\ sd.users = Some(TRUE))
    /\ (sd.usersExc # "none" \/ sd.users = Some(FALSE)) =>
           (~sd.attempted /\ sd.pc = "done" /\ rows.tasks = sd.tasks0)

C6_Witness ==
    /\ sd.pc = "done"
    /\ sd.usersExc = "psycopg.OperationalError"
    /\ sd.users = None
    /\ "new" \in rows.status /\ rows.users # {}
    /\ rows.tasks = sd.tasks0

\* C3: every run of the command-line tool ends with exit code 0, whatever
\* the action (one outside create/read/update/delete included), the
\* --name/--age/--features given and the failures of the store.
C3_AlwaysExitsZero ==
    cli_pc = "exited" => cli_exit = Some(0)

StateOps == {"open", "enter", "close", "exit", "del"}
DataOps == {"find", "create_one", "read_one", "read_all", "update_one",
            "delete_one", "delete_all"}

C7_Step ==
    /\ (client' = None) <=> (db' = None)
    /\ ret'.op \in {"open", "enter"} =>
          IF IsOpened
          THEN /\ UNCHANGED <<client, db, connsMade, liveConns>>
               /\ ret'.raised = "none"
          ELSE IF ret'.raised = "none"
          THEN /\ IsOpened'
               /\ connsMade' = connsMade + 1
               /\ liveConns' = client'
          ELSE /\ ~IsOpened'
               /\ UNCHANGED <<client, db, connsMade, liveConns>>
    /\ ret'.op = "enter" => (inWith' <=> ret'.raised = "none")
    /\ ret'.op \in {"close", "exit", "del"} =>
          /\ ~IsOpened'
          /\ liveConns' = {}
          /\ connsMade' = connsMade
    /\ ret'.op \in {"close", "del"} => ret'.raised = "none"
    /\ ret'.op = "exit" => ~inWith'

\* C7: the store is closed or open.  open() and entering a with block open
\* a closed store and leave an open one as it is, making no second
\* connection; close() closes an open store and may be called in any state
\* without an error; leaving a with block, normally or by an exception,
\* leaves the store closed.
C7_TwoStateMachine == [][C7_Step]_vars

C7_Witness ==
    /\ ret.op = "exit"
    /\ ret.raised = "RuntimeError"
    /\ ~IsOpened
    /\ connsMade = 1
    /\ liveConns = {}

\* C8: a data operation called on a closed store raises "Database is not
\* connected", makes no driver call, and changes neither the collection nor
\* the store.
C8_ClosedStoreRefuses ==
    [][(ret'.op \in DataOps /\ ~IsOpened) =>
          /\ ret'.raised = "NotConnected"
          /\ ret'.calls = 0
          /\ ret'.doc = None
          /\ UNCHANGED <<cats, nextId, storeVars>>]_vars

C8_Witness ==
    /\ ret.op = "delete_all"
    /\ ret.raised = "NotConnected"
    /\ ~IsOpened
    /\ connsMade > 0
    /\ cats # <<>>

\* an update_one step: the document it addresses, before and after
C9_Step ==
    LET n == ret'.name
        i == FirstMatch(cats, n)
    IN  /\ Len(cats') = Len(cats)
        /\ \A j \in 1..Len(cats) : j # i => cats'[j] = cats[j]
        /\ i # 0 =>
            /\ cats'[i].id = cats[i].id
            /\ cats'[i].name = cats[i].name
            /\ ret'.age = None => cats'[i].age = cats[i].age
            /\ ret'.feats = None => cats'[i].features = cats[i].features
            /\ ret'.raised = "none" =>
                /\ ret'.age # None => cats'[i].age = ret'.age
                /\ ret'.feats # None =>
                       Range(cats'[i].features) =
                           Range(cats[i].features) \cup Range(TheValue(ret'.feats))
                /\ ret'.doc = Some(cats'[i])

\* C9: update_one on an existing cat changes only what is supplied: the age
\* alone, the features alone (by union), or nothing, the current document
\* being returned in every case; every other document, those of the same
\* name included, stays as it is.
C9_UpdateChangesOnlySupplied ==
    [][(ret'.op = "update_one" /\ IsOpened) => C9_Step]_vars

C9_Witness ==
    /\ ret.op = "update_one"
    /\ ret.raised = "none"
    /\ ret.age = None
    /\ ret.feats = Some(<<"x", "y">>)
    /\ Len(cats) = 2
    /\ cats[1].name = cats[2].name
    /\ ret.doc = Some(cats[1])
    /\ cats[1].features = <<"x", "y">>
    /\ cats[1].age # None
    /\ cats[2].features = <<>>

Count(lst, v) == Cardinality({i \in 1..Len(lst) : lst[i] = v})

\* C10: a cat's features are those given at its creation and those supplied
\* in its updates, and nothing else; a value that updates added is there
\* once, a value given at creation as often as it was given.
C10_FeatureUnion ==
    \A i \in 1..Len(cats) :
        LET d == cats[i]
            h == hist[d.id]
        IN  /\ Range(d.features) = Range(h.created) \cup h.supplied
            /\ \A v \in Range(d.features) :
                   Count(d.features, v) =
                       (IF v \in Range(h.created) THEN Count(h.created, v) ELSE 1)

C10_Witness ==
    \E i \in 1..Len(cats) :
        /\ hist[cats[i].id].created = <<"x">>
        /\ hist[cats[i].id].supplied = {"x", "y"}
        /\ cats[i].features = <<"x", "y">>
        /\ ret.op = "update_one"
        /\ ret.feats = Some(<<"x">>)

\* the document create_one(n, a, fs) is to store and return
Asked(r) ==
    [name |-> r.name, age |-> r.age,
     features |-> IF r.feats = None THEN <<>> ELSE TheValue(r.feats)]

Shown(d) == [name |-> d.name, age |-> d.age, features |-> d.features]

\* the calls of Scenario made so far answer as the example says
C11_Answers ==
    LET c == chain.calls
        k == Len(c)
    IN  /\ k >= 1 =>
            /\ c[1].doc # None
            /\ Shown(TheValue(c[1].doc)) = Asked(c[1])
            /\ k < 3 => \E i \in 1..Len(cats) : cats[i] = TheValue(c[1].doc)
        /\ k >= 2 => c[2].doc = c[1].doc
        /\ k >= 3 => c[3].count = 1
        /\ k >= 4 => c[4].doc = None

\* C11 as stated: create_one(name, age, features) returns a document of
\* that name, age and features (no features when none are given); a
\* following read_one(name) returns that document, a following
\* delete_one(name) reports 1, a following read_one(name) finds nothing.
C11_CreateReadDeleteRead == C11_Answers

\* C11 (amended): the same, for a name that no document of the collection
\* bears when create_one is called.
C11_CreateReadDeleteReadFresh == chain.fresh => C11_Answers

C11_Witness ==
    /\ chain.fresh
    /\ Len(chain.calls) = 4
    /\ chain.calls[1].feats = None
    /\ chain.calls[1].age = Some(2)
    /\ TheValue(chain.calls[2].doc).features = <<>>
    /\ chain.calls[4].doc = None
    /\ cats # <<>>

\* C12: for a name that no document of the collection has, read_one and
\* update_one (whatever age and features it is given) return nothing and
\* delete_one returns 0, and the collection stays as it is; update_one
\* creates no document.
C12_AbsentNameChangesNothing ==
    [][(/\ ret'.op \in {"read_one", "update_one", "delete_one"}
        /\ IsOpened
        /\ FirstMatch(cats, ret'.name) = 0) =>
            /\ cats' = cats
            /\ nextId' = nextId
            /\ ret'.raised = "none" => (ret'.doc = None /\ ret'.count = 0)]_vars

C12_Witness ==
    /\ ret.op = "update_one"
    /\ ret.raised = "none"
    /\ ret.age # None
    /\ ret.feats # None
    /\ ret.doc = None
    /\ ret.calls = 3
    /\ cats # <<>>
    /\ FirstMatch(cats, ret.name) = 0

\* C13: create_database invoked twice in sequence for one name, the server
\* failing no statement, returns True both times; the second invocation
\* issues no CREATE DATABASE; one database of that name exists afterwards.
C13_SequentialIdempotent ==
    \A p \in Procs :
        /\ cd[p].after => ~cd[p].issued /\ cd[p].pc # "create"
        /\ (cd[p].pc = "done" /\ cd[p].raised = "none" /\ (cd[p].solo \/ cd[p].after)) =>
               /\ cd[p].result = Some(TRUE)
               /\ cd[p].closed
               /\ catalog[cd[p].name] = 1
        /\ (cd[p].pc = "done" /\ cd[p].raised = "none" /\ cd[p].after) => cd[p].exists

C13_Witness ==
    \E p, q \in Procs :
        /\ p # q
        /\ Returned(p, "hw") /\ cd[p].solo /\ cd[p].issued /\ ~cd[p].after
        /\ Returned(q, "hw") /\ cd[q].solo /\ cd[q].after /\ ~cd[q].issued
        /\ catalog["hw"] = 1

\* C14: a transaction() scope whose body raised, a database error or any
\* other exception, issues no commit on its connection; the exception
\* reaches the caller as it was raised; the connection goes back to the
\* pool once, with no work of the scope pending on it, and nothing the
\* scope did in a transaction is kept.
C14_NoCommitAfterRaise ==
    \A t \in Threads :
        (Finished(t) /\ th[t].op = "transaction" /\ th[t].exc # "none") =>
            /\ ~Has(th[t].log, "commit")
            /\ ~Has(th[t].log, "commit failed")
            /\ th[t].raised = th[t].exc
            /\ ~th[t].holds /\ th[t].returns = 1
            /\ ~th[t].pending
            /\ ~pg_config.autocommit => ~th[t].durable

C14_Witness ==
    \E t \in Threads :
        /\ Finished(t) /\ th[t].op = "transaction"
        /\ th[t].exc = "TypeError"
        /\ th[t].raised = "TypeError"
        /\ th[t].log = <<"rollback">>
        /\ th[t].returns = 1
        /\ ~pg_config.autocommit
        /\ pool_free = pg_config.max_size
====
